---- MODULE Spec2Model ----
(***************************************************************************)
(* The IncusMachine reconciler (internal/controller/                       *)
(* incusmachine_controller.go) together with the Incus client it drives    *)
(* (package incus) and the IncusMachine object it reconciles (api/v1alpha1)*)
(* for one IncusMachine object and one reconcile worker.                   *)
(*                                                                         *)
(* A reconcile is a sequence of steps, one per call that leaves the        *)
(* process (object store or Incus daemon); between two steps the process   *)
(* may crash, the user may request deletion, the store may purge the       *)
(* object and the backend instance may disappear.                          *)
(***************************************************************************)
EXTENDS Integers, Sequences, FiniteSets, TLC

\* ------------------------------------------------------------ bounds
\* Injected failures (errors of the daemon or the store, crashes).
MaxFaults == 2
\* Instances that disappear from the backend without the reconciler.
MaxExternal == 1
\* Largest value of spec.cpus, spec.memoryMiB and spec.rootDiskSizeGiB.
MaxSpecValue == 1
\* Goroutines that call one shared client directly.
NumWorkers == 2
\* Calls made on the shared client by those goroutines.
MaxClientCalls == 4

\* ------------------------------------------------------------ constants
DefaultCPUs == 2
DefaultMemoryMiB == 2048
DefaultImage == "images:ubuntu/24.04"

\* metadata.name of the object, and an instance id that is not its name.
Name == "m1"
OtherID == "vm-ext"
NoID == ""
InstanceNames == {Name, OtherID}
CustomImage == "images:debian/12"

SpecValues == -1 .. MaxSpecValue

\* IncusMachineSpec
IncusMachineSpec ==
    [image : {"", CustomImage}, cpus : SpecValues,
     memoryMiB : SpecValues, rootDiskSizeGiB : SpecValues]

\* The two desired specs the reconcile protocol is explored with: nothing
\* set, and everything set.
ProtocolSpecs ==
    {[image |-> "", cpus |-> 0, memoryMiB |-> 0, rootDiskSizeGiB |-> 0],
     [image |-> CustomImage, cpus |-> 1, memoryMiB |-> 1, rootDiskSizeGiB |-> 1]}

\* IncusMachineStatus
IncusMachineStatus(id) == [conditions |-> <<>>, instanceID |-> id]

\* IncusMachine: present is "the store holds the object", deletionTimestamp is
\* "DeletionTimestamp is not zero", finalizer is "the finalizer list holds
\* incusMachineFinalizer".
IncusMachine(spec, id) ==
    [present |-> TRUE, name |-> Name, deletionTimestamp |-> FALSE,
     finalizer |-> FALSE, spec |-> spec, status |-> IncusMachineStatus(id)]

VARIABLES
    stored,          \* the object as the store holds it
    instances,       \* names of the instances the Incus daemon holds
    server,          \* clientImpl.server # nil
    pc,              \* position of the reconcile worker
    incusMachine,    \* Reconcile's copy of the object
    instanceName,    \* reconcileNormal's / reconcileDelete's instanceName
    stale,           \* the store's object changed since Reconcile's Get
    trace,           \* calls of the current (or last) reconcile, in order
    creates,         \* CreateInstance calls of the reconcile: args and request
    lastResult,      \* what the current (or last) reconcile returned
    prev,            \* the reconcile before it, when nothing else acted since
    disturbed,       \* another actor acted since the reconcile began
    startObj,        \* the stored object when the reconcile began
    removedByDelete, \* reconcileDelete removed the finalizer
    createdNames,    \* names CreateInstance succeeded for
    attemptedNames,  \* names CreateInstance was issued for
    faults,          \* failures injected so far
    externals,       \* external instance removals so far
    callers,         \* goroutines that call the client directly
    cw,              \* per goroutine: position in its client call
    clog,            \* Connect and Close calls completed, in order
    nilUse           \* a call dereferenced a nil c.server

vars == <<stored, instances, server, pc, incusMachine, instanceName, stale,
          trace, creates, lastResult, prev, disturbed, startObj,
          removedByDelete, createdNames, attemptedNames, faults, externals,
          callers, cw, clog, nilUse>>

\* The client's direct callers.
client == <<callers, cw, clog, nilUse>>

\* The reconciler's own state and the world it acts on.
engine == <<stored, instances, pc, incusMachine, instanceName, stale, trace, creates,
            lastResult, prev, disturbed, startObj, removedByDelete, createdNames,
            attemptedNames, faults, externals>>

Workers == 1 .. NumWorkers
IdleCall == [pc |-> "idle", op |-> "", before |-> FALSE]

ghost == <<removedByDelete, createdNames, attemptedNames>>

NoPrev == [result |-> "none", trace |-> <<>>]

\* A failure may still be injected.
CanFail == faults < MaxFaults

\* ------------------------------------------------------------ incus.Client
\* Each operation is the set of outcomes the call can have: the client's
\* session afterwards, the daemon's instances afterwards, and what is
\* returned. canFail allows the outcomes in which the daemon or the
\* transport fails.

\* clientImpl.Connect: no-op when a session is held; otherwise the session
\* is set on success and left unset on failure.
Connect(srv, canFail) ==
    IF srv
    THEN {[server |-> TRUE, err |-> FALSE]}
    ELSE {[server |-> TRUE, err |-> FALSE]}
         \cup (IF canFail THEN {[server |-> FALSE, err |-> TRUE]} ELSE {})

\* clientImpl.InstanceExists: GetInstance's not-found is (false, nil), any
\* other error is (false, err).
InstanceExists(srv, insts, name, canFail) ==
    UNION {
        IF c.err
        THEN {[server |-> c.server, exists |-> FALSE, err |-> TRUE]}
        ELSE {[server |-> c.server, exists |-> name \in insts, err |-> FALSE]}
             \cup (IF canFail
                   THEN {[server |-> c.server, exists |-> FALSE, err |-> TRUE]}
                   ELSE {})
        : c \in Connect(srv, canFail)}

\* The defaults clientImpl.CreateInstance applies to its own parameters.
ClientCPUs(cpus) == IF cpus < 1 THEN DefaultCPUs ELSE cpus
ClientMemoryMiB(memoryMiB) == IF memoryMiB < 1 THEN DefaultMemoryMiB ELSE memoryMiB
ClientImage(image) == IF image = "" THEN DefaultImage ELSE image

\* The api.InstancesPost request clientImpl.CreateInstance builds. A limit is
\* the number with its unit ("%d" and "%dMiB"); the root device is set only
\* for a size above 0 (<<>> is "no Devices entry").
InstancesPost(name, image, cpus, memoryMiB, rootDiskSizeGiB) ==
    [name |-> name,
     alias |-> ClientImage(image),
     limitsCpu |-> <<ClientCPUs(cpus), "">>,
     limitsMemory |-> <<ClientMemoryMiB(memoryMiB), "MiB">>,
     rootSize |-> IF rootDiskSizeGiB > 0 THEN <<rootDiskSizeGiB, "GiB">> ELSE <<>>]

\* What op.Wait() returning nil means for the daemon's instances: the
\* instance is there.
CreateDone(insts, name) == insts \cup {name}

\* clientImpl.CreateInstance: Connect fails (nothing is sent), or the request
\* is rejected (always, when the name is taken), or the wait fails with the
\* instance there or not, or both succeed. req is the request sent, if any.
CreateInstance(srv, insts, name, image, cpus, memoryMiB, rootDiskSizeGiB, canFail) ==
    LET req == <<InstancesPost(name, image, cpus, memoryMiB, rootDiskSizeGiB)>> IN
    UNION {
        IF c.err
        THEN {[server |-> c.server, instances |-> insts, err |-> TRUE, req |-> <<>>]}
        ELSE (IF name \in insts
              THEN {[server |-> c.server, instances |-> insts, err |-> TRUE,
                     req |-> req]}
              ELSE {[server |-> c.server, instances |-> CreateDone(insts, name),
                     err |-> FALSE, req |-> req]}
                   \cup (IF canFail
                         THEN {[server |-> c.server, instances |-> i, err |-> TRUE,
                                req |-> req]
                               : i \in {insts, insts \cup {name}}}
                         ELSE {}))
        : c \in Connect(srv, canFail)}

\* What op.Wait() returning nil means after a delete: the instance is gone.
DeleteDone(insts, name) == insts \ {name}

\* clientImpl.DeleteInstance: symmetric; deleting an absent instance is an
\* error of the daemon.
DeleteInstance(srv, insts, name, canFail) ==
    UNION {
        IF c.err
        THEN {[server |-> c.server, instances |-> insts, err |-> TRUE]}
        ELSE (IF name \notin insts
              THEN {[server |-> c.server, instances |-> insts, err |-> TRUE]}
              ELSE {[server |-> c.server, instances |-> DeleteDone(insts, name),
                     err |-> FALSE]}
                   \cup (IF canFail
                         THEN {[server |-> c.server, instances |-> i, err |-> TRUE]
                               : i \in {insts, insts \ {name}}}
                         ELSE {}))
        : c \in Connect(srv, canFail)}

\* ------------------------------------------------------------ object store
\* r.Update and r.Status().Update: NotFound when the object is gone, Conflict
\* when it changed since the Get (resourceVersion), or a transient failure.
StoreWrite(obj, isStale, canFail) ==
    IF ~obj.present \/ isStale
    THEN {"conflict"}
    ELSE {"ok"} \cup (IF canFail THEN {"fault"} ELSE {})

\* r.Update persisting a copy the defaults were written into.
Update_WritesDefaults(obj, copy) ==
    [obj EXCEPT !.finalizer = copy.finalizer,
                !.spec = [image |-> IF copy.spec.image = "" THEN DefaultImage
                                    ELSE copy.spec.image,
                          cpus |-> IF copy.spec.cpus < 1 THEN DefaultCPUs
                                   ELSE copy.spec.cpus,
                          memoryMiB |-> IF copy.spec.memoryMiB < 1 THEN DefaultMemoryMiB
                                        ELSE copy.spec.memoryMiB,
                          rootDiskSizeGiB |-> copy.spec.rootDiskSizeGiB]]

\* r.Update writes metadata and spec; the status subresource keeps status.
Update(obj, copy) == [obj EXCEPT !.finalizer = copy.finalizer, !.spec = copy.spec]

\* r.Status().Update writes status only.
StatusUpdate(obj, copy) == [obj EXCEPT !.status = copy.status]

\* ------------------------------------------------------------ Reconcile
\* Dispatch without the finalizer gate of lines 62-68.
Dispatch_NoFinalizerGate(obj) ==
    IF ~obj.present THEN "ok"
    ELSE IF obj.deletionTimestamp
         THEN (IF ~obj.finalizer THEN "ok" ELSE "reconcileDelete")
         ELSE "reconcileNormal"

\* Dispatch without reconcileDelete's finalizer check of lines 127-129.
Dispatch_NoDeletedGate(obj) ==
    IF ~obj.present THEN "ok"
    ELSE IF obj.deletionTimestamp
         THEN "reconcileDelete"
         ELSE (IF ~obj.finalizer THEN "addFinalizer" ELSE "reconcileNormal")

\* Dispatch without the deletion check of lines 57-59.
Dispatch_DeletionIgnored(obj) ==
    IF ~obj.present THEN "ok"
    ELSE IF ~obj.finalizer
         THEN (IF obj.deletionTimestamp THEN "ok" ELSE "addFinalizer")
         ELSE "reconcileNormal"

\* Where Reconcile goes after its Get: "ok" is "return Result{}, nil".
Dispatch(obj) ==
    IF ~obj.present THEN "ok"
    ELSE IF obj.deletionTimestamp
         THEN (IF ~obj.finalizer THEN "ok" ELSE "reconcileDelete")
         ELSE (IF ~obj.finalizer THEN "addFinalizer" ELSE "reconcileNormal")

\* reconcileNormal naming the instance after the object, whatever the status.
NormalInstanceName_NameFirst(m) == m.name

\* reconcileNormal's instanceName.
NormalInstanceName(m) ==
    IF m.status.instanceID # "" THEN m.status.instanceID ELSE m.name

\* reconcileDelete naming the instance after the object, whatever the status.
DeleteInstanceName_NameFirst(m) == m.name

\* reconcileDelete's instanceName.
DeleteInstanceName(m) ==
    IF m.status.instanceID = "" THEN m.name ELSE m.status.instanceID

\* reconcileDelete skips the backend for an empty instanceName.
DeleteEntry(name) == IF name # "" THEN "deleteExists" ELSE "removeFinalizer"

\* reconcileNormal creating whatever the existence check returned.
AfterNormalExists_NoGate(exists, err, m, name) == IF err THEN "err" ELSE "create"

\* reconcileNormal going on to create after a failed existence check.
AfterNormalExists_IgnoreError(exists, err, m, name) ==
    IF exists /\ ~err
    THEN (IF m.status.instanceID # name THEN "syncStatus" ELSE "ok")
    ELSE "create"

\* reconcileNormal after InstanceExists.
AfterNormalExists(exists, err, m, name) ==
    IF err THEN "err"
    ELSE IF exists
         THEN (IF m.status.instanceID # name THEN "syncStatus" ELSE "ok")
         ELSE "create"

\* reconcileNormal passing spec.cpus as it is.
ReconcileCPUs_NoDefault(m) == m.spec.cpus

\* The values reconcileNormal passes to CreateInstance.
ReconcileImage(m) == IF m.spec.image = "" THEN DefaultImage ELSE m.spec.image
ReconcileCPUs(m) == IF m.spec.cpus < 1 THEN DefaultCPUs ELSE m.spec.cpus
ReconcileMemoryMiB(m) ==
    IF m.spec.memoryMiB < 1 THEN DefaultMemoryMiB ELSE m.spec.memoryMiB
ReconcileRootDiskSizeGiB(m) == m.spec.rootDiskSizeGiB

CreateArgs(m) ==
    [image |-> ReconcileImage(m), cpus |-> ReconcileCPUs(m),
     memoryMiB |-> ReconcileMemoryMiB(m),
     rootDiskSizeGiB |-> ReconcileRootDiskSizeGiB(m)]

\* reconcileNormal going on after a failed CreateInstance.
AfterCreate_IgnoreError(err) == "setStatus"

\* reconcileNormal calling CreateInstance again after it failed.
AfterCreate_Retry(err) == IF err THEN "create" ELSE "setStatus"

\* reconcileNormal after CreateInstance.
AfterCreate(err) == IF err THEN "err" ELSE "setStatus"

\* reconcileDelete deleting when the check returned false.
AfterDeleteExists_Swapped(exists, err) ==
    IF err THEN "err" ELSE IF exists THEN "removeFinalizer" ELSE "delete"

\* reconcileDelete going on after a failed existence check.
AfterDeleteExists_IgnoreError(exists, err) ==
    IF exists /\ ~err THEN "delete" ELSE "removeFinalizer"

\* reconcileDelete after InstanceExists.
AfterDeleteExists(exists, err) ==
    IF err THEN "err" ELSE IF exists THEN "delete" ELSE "removeFinalizer"

\* reconcileDelete going on after a failed DeleteInstance.
AfterDelete_IgnoreError(err) == "removeFinalizer"

\* reconcileDelete after DeleteInstance.
AfterDelete(err) == IF err THEN "err" ELSE "removeFinalizer"

\* The finalizer added and success returned with no requeue.
AfterAddFinalizer_NoRequeue(written) == IF written THEN "ok" ELSE "err"

\* Reconcile after the Update that adds the finalizer.
AfterAddFinalizer(written) == IF written THEN "requeue" ELSE "err"

\* A failed store write returned as success.
AfterWrite_Swallowed(written) == "ok"

\* After the last store write of reconcileNormal or reconcileDelete.
AfterWrite(written) == IF written THEN "ok" ELSE "err"

Results == {"ok", "requeue", "err"}

\* The worker moves to `next`: a result ends the reconcile.
Goto(next) ==
    /\ pc' = IF next \in Results THEN "idle" ELSE next
    /\ lastResult' = IF next \in Results THEN next ELSE "running"

Call(op, name, res) == [op |-> op, name |-> name, res |-> res]

Fault(failed) == faults' = IF failed /\ CanFail THEN faults + 1 ELSE faults

\* Reconcile, lines 48-70: Get, then the dispatch on deletion and finalizer.
Reconcile ==
    /\ pc = "idle"
    /\ \E getErr \in (IF CanFail /\ stored.present THEN {FALSE, TRUE} ELSE {FALSE}) :
          LET next == IF getErr THEN "err" ELSE Dispatch(stored)
              name == IF next = "reconcileDelete" THEN DeleteInstanceName(stored)
                      ELSE IF next = "reconcileNormal" THEN NormalInstanceName(stored)
                      ELSE NoID
          IN /\ Goto(IF next = "reconcileDelete" THEN DeleteEntry(name)
                     ELSE IF next = "reconcileNormal" THEN "normalExists"
                     ELSE next)
             /\ instanceName' = name
             /\ Fault(getErr)
    /\ incusMachine' = stored
    /\ stale' = FALSE
    /\ trace' = <<>>
    /\ creates' = <<>>
    /\ prev' = IF disturbed THEN NoPrev ELSE [result |-> lastResult, trace |-> trace]
    /\ disturbed' = FALSE
    /\ startObj' = stored
    /\ UNCHANGED <<stored, instances, server, ghost, externals, client>>

\* Reconcile, lines 62-67: AddFinalizer, Update, requeue.
AddFinalizer ==
    /\ pc = "addFinalizer"
    /\ incusMachine' = [incusMachine EXCEPT !.finalizer = TRUE]
    /\ \E w \in StoreWrite(stored, stale, CanFail) :
          /\ stored' = IF w = "ok" THEN Update(stored, incusMachine') ELSE stored
          /\ trace' = Append(trace, Call("Update", NoID, IF w = "ok" THEN "ok" ELSE "err"))
          /\ Goto(AfterAddFinalizer(w = "ok"))
          /\ Fault(w = "fault")
    /\ UNCHANGED <<instances, server, instanceName, stale, creates, prev, disturbed,
                   startObj, ghost, externals, client>>

\* reconcileNormal, lines 80-95: the existence check and what follows it.
NormalExists ==
    /\ pc = "normalExists"
    /\ \E out \in InstanceExists(server, instances, instanceName, CanFail) :
          /\ server' = out.server
          /\ trace' = Append(trace, Call("InstanceExists", instanceName,
                               IF out.err THEN "err"
                               ELSE IF out.exists THEN "true" ELSE "false"))
          /\ Goto(AfterNormalExists(out.exists, out.err, incusMachine, instanceName))
          /\ Fault(out.err)
    /\ UNCHANGED <<stored, instances, incusMachine, instanceName, stale, creates, prev,
                   disturbed, startObj, ghost, externals, client>>

\* reconcileNormal, lines 88-93: status.instanceID follows the instance found.
SyncStatus ==
    /\ pc = "syncStatus"
    /\ incusMachine' = [incusMachine EXCEPT !.status.instanceID = instanceName]
    /\ \E w \in StoreWrite(stored, stale, CanFail) :
          /\ stored' = IF w = "ok" THEN StatusUpdate(stored, incusMachine') ELSE stored
          /\ trace' = Append(trace, Call("StatusUpdate", instanceName,
                                         IF w = "ok" THEN "ok" ELSE "err"))
          /\ Goto(AfterWrite(w = "ok"))
          /\ Fault(w = "fault")
    /\ UNCHANGED <<instances, server, instanceName, stale, creates, prev, disturbed,
                   startObj, ghost, externals, client>>

\* reconcileNormal, lines 97-115: defaults, then CreateInstance.
Create ==
    /\ pc = "create"
    /\ LET a == CreateArgs(incusMachine) IN
       \E out \in CreateInstance(server, instances, instanceName, a.image, a.cpus,
                                 a.memoryMiB, a.rootDiskSizeGiB, CanFail) :
          /\ server' = out.server
          /\ instances' = out.instances
          /\ trace' = Append(trace, Call("CreateInstance", instanceName,
                                         IF out.err THEN "err" ELSE "ok"))
          /\ creates' = Append(creates, [name |-> instanceName, args |-> a,
                                         req |-> out.req, err |-> out.err])
          /\ createdNames' = IF out.err THEN createdNames
                             ELSE createdNames \cup {instanceName}
          /\ attemptedNames' = attemptedNames \cup {instanceName}
          /\ Goto(AfterCreate(out.err))
          /\ Fault(out.err)
    /\ UNCHANGED <<stored, incusMachine, instanceName, stale, prev, disturbed, startObj,
                   removedByDelete, externals, client>>

\* reconcileNormal, lines 117-120: status.instanceID is set and persisted.
SetStatus ==
    /\ pc = "setStatus"
    /\ incusMachine' = [incusMachine EXCEPT !.status.instanceID = instanceName]
    /\ \E w \in StoreWrite(stored, stale, CanFail) :
          /\ stored' = IF w = "ok" THEN StatusUpdate(stored, incusMachine') ELSE stored
          /\ trace' = Append(trace, Call("StatusUpdate", instanceName,
                                         IF w = "ok" THEN "ok" ELSE "err"))
          /\ Goto(AfterWrite(w = "ok"))
          /\ Fault(w = "fault")
    /\ UNCHANGED <<instances, server, instanceName, stale, creates, prev, disturbed,
                   startObj, ghost, externals, client>>

\* reconcileDelete, lines 137-143: the existence check.
DeleteExists ==
    /\ pc = "deleteExists"
    /\ \E out \in InstanceExists(server, instances, instanceName, CanFail) :
          /\ server' = out.server
          /\ trace' = Append(trace, Call("InstanceExists", instanceName,
                               IF out.err THEN "err"
                               ELSE IF out.exists THEN "true" ELSE "false"))
          /\ Goto(AfterDeleteExists(out.exists, out.err))
          /\ Fault(out.err)
    /\ UNCHANGED <<stored, instances, incusMachine, instanceName, stale, creates, prev,
                   disturbed, startObj, ghost, externals, client>>

\* reconcileDelete, lines 144-148: DeleteInstance.
Delete ==
    /\ pc = "delete"
    /\ \E out \in DeleteInstance(server, instances, instanceName, CanFail) :
          /\ server' = out.server
          /\ instances' = out.instances
          /\ trace' = Append(trace, Call("DeleteInstance", instanceName,
                                         IF out.err THEN "err" ELSE "ok"))
          /\ Goto(AfterDelete(out.err))
          /\ Fault(out.err)
    /\ UNCHANGED <<stored, incusMachine, instanceName, stale, creates, prev, disturbed,
                   startObj, ghost, externals, client>>

\* reconcileDelete, lines 152-157: RemoveFinalizer, Update.
RemoveFinalizer ==
    /\ pc = "removeFinalizer"
    /\ incusMachine' = [incusMachine EXCEPT !.finalizer = FALSE]
    /\ \E w \in StoreWrite(stored, stale, CanFail) :
          /\ stored' = IF w = "ok" THEN Update(stored, incusMachine') ELSE stored
          /\ removedByDelete' = (removedByDelete \/ w = "ok")
          /\ trace' = Append(trace, Call("Update", NoID, IF w = "ok" THEN "ok" ELSE "err"))
          /\ Goto(AfterWrite(w = "ok"))
          /\ Fault(w = "fault")
    /\ UNCHANGED <<instances, server, instanceName, stale, creates, prev, disturbed,
                   startObj, createdNames, attemptedNames, externals, client>>

\* The manager's process dies in the middle of a reconcile; the next one
\* runs in a new process, with a new client.
Crash ==
    /\ pc # "idle"
    /\ CanFail
    /\ pc' = "idle"
    /\ lastResult' = "crash"
    /\ server' = FALSE
    /\ faults' = faults + 1
    /\ UNCHANGED <<stored, instances, incusMachine, instanceName, stale, trace, creates,
                   prev, disturbed, startObj, ghost, externals, client>>

\* ------------------------------------------------------------ other actors
\* The user deletes the object: the store sets DeletionTimestamp.
RequestDeletion ==
    /\ stored.present /\ ~stored.deletionTimestamp
    /\ stored' = [stored EXCEPT !.deletionTimestamp = TRUE]
    /\ stale' = TRUE
    /\ disturbed' = TRUE
    /\ UNCHANGED <<instances, server, pc, incusMachine, instanceName, trace, creates,
                   lastResult, prev, startObj, ghost, faults, externals, client>>

\* The store purges an object whose deletion is requested once this
\* finalizer is gone.
Purge ==
    /\ stored.present /\ stored.deletionTimestamp /\ ~stored.finalizer
    /\ stored' = [stored EXCEPT !.present = FALSE]
    /\ stale' = TRUE
    /\ disturbed' = TRUE
    /\ UNCHANGED <<instances, server, pc, incusMachine, instanceName, trace, creates,
                   lastResult, prev, startObj, ghost, faults, externals, client>>

\* An instance disappears from the daemon without the reconciler.
InstanceLost ==
    /\ externals < MaxExternal
    /\ \E n \in instances : instances' = instances \ {n}
    /\ externals' = externals + 1
    /\ disturbed' = TRUE
    /\ UNCHANGED <<stored, server, pc, incusMachine, instanceName, stale, trace, creates,
                   lastResult, prev, startObj, ghost, faults, client>>

\* ------------------------------------------------------------ specification
InitCommon ==
    /\ server = FALSE
    /\ pc = "idle"
    /\ incusMachine = stored
    /\ instanceName = NoID
    /\ stale = FALSE
    /\ trace = <<>>
    /\ creates = <<>>
    /\ lastResult = "none"
    /\ prev = NoPrev
    /\ disturbed = FALSE
    /\ startObj = stored
    /\ removedByDelete = FALSE
    /\ createdNames = {}
    /\ attemptedNames = {}
    /\ externals = 0
    /\ callers = {}
    /\ cw = [w \in Workers |-> IdleCall]
    /\ clog = <<>>
    /\ nilUse = FALSE

\* A new object, or one whose status names an instance under another name;
\* the daemon may already hold instances.
Init ==
    /\ stored \in {IncusMachine(s, id) : s \in ProtocolSpecs, id \in {NoID, OtherID}}
    /\ instances \in SUBSET InstanceNames
    /\ faults = 0
    /\ InitCommon

Next ==
    \/ Reconcile
    \/ AddFinalizer
    \/ NormalExists
    \/ SyncStatus
    \/ Create
    \/ SetStatus
    \/ DeleteExists
    \/ Delete
    \/ RemoveFinalizer
    \/ Crash
    \/ RequestDeletion
    \/ Purge
    \/ InstanceLost

Spec == Init /\ [][Next]_vars

\* Every desired spec, for a new object on an empty daemon.
InitDefaults ==
    /\ stored \in {IncusMachine(s, NoID) : s \in IncusMachineSpec}
    /\ instances = {}
    /\ faults = MaxFaults - 1
    /\ InitCommon

SpecDefaults == InitDefaults /\ [][Next]_vars

TypeOK ==
    /\ pc \in {"idle", "addFinalizer", "normalExists", "syncStatus", "create",
               "setStatus", "deleteExists", "delete", "removeFinalizer"}
    /\ lastResult \in Results \cup {"none", "running", "crash"}
    /\ instances \subseteq InstanceNames
    /\ server \in BOOLEAN
    /\ faults \in 0 .. MaxFaults
    /\ externals \in 0 .. MaxExternal
    /\ Len(trace) <= 3
    /\ stored.status.instanceID \in InstanceNames \cup {NoID}
    /\ callers \subseteq 1 .. NumWorkers
    /\ Len(clog) <= MaxClientCalls
    /\ nilUse \in BOOLEAN


\* ------------------------------------------------------------ re-delivery
\* The work queue holds a request for the object: the last reconcile ended
\* in an error or a requeue, the process restarted, or the object changed
\* after the worker read it.
Pending == lastResult \in {"none", "err", "requeue", "crash"} \/ stale

\* The worker runs every handler it entered to its return.
Steps ==
    \/ AddFinalizer
    \/ NormalExists
    \/ SyncStatus
    \/ Create
    \/ SetStatus
    \/ DeleteExists
    \/ Delete
    \/ RemoveFinalizer

\* The reconciler, its restarts, and the user's deletion request; nothing
\* else touches the daemon's instances.
NextLive ==
    \/ Reconcile
    \/ Steps
    \/ Crash
    \/ RequestDeletion
    \/ Purge

\* One worker per object, a pending request is delivered, and failures stop
\* once the fault budget is spent.
SpecLive ==
    /\ Init
    /\ [][NextLive]_vars
    /\ WF_vars(Pending /\ Reconcile)
    /\ WF_vars(Steps)

\* ------------------------------------------------------------ shared client
\* The client's methods as the steps of a goroutine: clientImpl holds no
\* lock, so the reads and writes of c.server of two callers interleave.
ClientOps == {"Connect", "InstanceExists", "CreateInstance", "DeleteInstance", "Close"}

\* A completed Connect or Close: what it returned, whether it dialled, and
\* c.server # nil before and after it.
Lifecycle(op, res, dialled, before, after) ==
    [op |-> op, res |-> res, dialled |-> dialled, before |-> before, after |-> after]

\* Connect passing its nil check even with a session held.
ConnectSkips_Never(srv) == FALSE

\* Connect, line 67: with c.server set it returns nil at once.
ConnectSkips(srv) == srv

\* Connect, lines 75-77: a failed dial returns the error, c.server untouched.
DialFailed(srv) == srv

\* Connect, line 78: c.server = server.
DialAssigned(srv) == TRUE

\* Close, line 180: c.server = nil.
Closed(srv) == FALSE

\* Where a caller goes once its Connect has returned nil.
AfterConnect(op) == IF op = "Connect" THEN "idle" ELSE "use"

CallsInFlight == Cardinality({w \in Workers : cw[w].pc # "idle"})

\* A goroutine calls a method of the client.
Begin(w) ==
    /\ w \in callers
    /\ cw[w].pc = "idle"
    /\ Len(clog) + CallsInFlight < MaxClientCalls
    /\ \E op \in ClientOps :
          cw' = [cw EXCEPT ![w] = [pc |-> IF op = "Close" THEN "close" ELSE "check",
                                   op |-> op, before |-> FALSE]]
    /\ UNCHANGED <<server, callers, clog, nilUse, engine>>

\* Connect, lines 67-69: the nil check.
ConnectCheck(w) ==
    /\ cw[w].pc = "check"
    /\ IF ConnectSkips(server)
       THEN /\ cw' = [cw EXCEPT ![w].pc = AfterConnect(cw[w].op), ![w].before = server]
            /\ clog' = Append(clog, Lifecycle("Connect", "ok", FALSE, server, server))
       ELSE /\ cw' = [cw EXCEPT ![w].pc = "dial", ![w].before = server]
            /\ clog' = clog
    /\ UNCHANGED <<server, callers, nilUse, engine>>

\* Connect, lines 74-77: ConnectIncusUnixWithContext returns a session or an
\* error.
ConnectDial(w) ==
    /\ cw[w].pc = "dial"
    /\ \E ok \in BOOLEAN :
          IF ok
          THEN /\ cw' = [cw EXCEPT ![w].pc = "assign"]
               /\ UNCHANGED <<server, clog>>
          ELSE /\ cw' = [cw EXCEPT ![w] = IdleCall]
               /\ server' = DialFailed(server)
               /\ clog' = Append(clog, Lifecycle("Connect", "err", TRUE, cw[w].before,
                                                 DialFailed(server)))
    /\ UNCHANGED <<callers, nilUse, engine>>

\* Connect, lines 78-79: the session is stored.
ConnectAssign(w) ==
    /\ cw[w].pc = "assign"
    /\ server' = DialAssigned(server)
    /\ cw' = [cw EXCEPT ![w].pc = AfterConnect(cw[w].op)]
    /\ clog' = Append(clog, Lifecycle("Connect", "ok", TRUE, cw[w].before,
                                      DialAssigned(server)))
    /\ UNCHANGED <<callers, nilUse, engine>>

\* InstanceExists, CreateInstance, DeleteInstance after their Connect:
\* c.server.GetInstance, c.server.CreateInstance, c.server.DeleteInstance.
Use(w) ==
    /\ cw[w].pc = "use"
    /\ nilUse' = (nilUse \/ ~server)
    /\ cw' = [cw EXCEPT ![w] = IdleCall]
    /\ UNCHANGED <<server, callers, clog, engine>>

\* Close, lines 179-182.
Close(w) ==
    /\ cw[w].pc = "close"
    /\ server' = Closed(server)
    /\ cw' = [cw EXCEPT ![w] = IdleCall]
    /\ clog' = Append(clog, Lifecycle("Close", "ok", FALSE, server, Closed(server)))
    /\ UNCHANGED <<callers, nilUse, engine>>

NextClient ==
    \E w \in Workers :
        \/ Begin(w)
        \/ ConnectCheck(w)
        \/ ConnectDial(w)
        \/ ConnectAssign(w)
        \/ Use(w)
        \/ Close(w)

\* A new client and its callers; the reconciler is not running.
InitClient(cs) ==
    /\ callers = cs
    /\ stored = IncusMachine([image |-> "", cpus |-> 0, memoryMiB |-> 0,
                              rootDiskSizeGiB |-> 0], NoID)
    /\ instances = {}
    /\ faults = 0
    /\ server = FALSE
    /\ pc = "idle"
    /\ incusMachine = stored
    /\ instanceName = NoID
    /\ stale = FALSE
    /\ trace = <<>>
    /\ creates = <<>>
    /\ lastResult = "none"
    /\ prev = NoPrev
    /\ disturbed = FALSE
    /\ startObj = stored
    /\ removedByDelete = FALSE
    /\ createdNames = {}
    /\ attemptedNames = {}
    /\ externals = 0
    /\ cw = [w \in Workers |-> IdleCall]
    /\ clog = <<>>
    /\ nilUse = FALSE

\* One goroutine calls a new client: every sequence of its methods.
InitLifecycle == InitClient({1})

SpecLifecycle == InitLifecycle /\ [][NextClient]_vars

\* Every goroutine calls the one new client.
InitShared == InitClient(Workers)

SpecShared == InitShared /\ [][NextClient]_vars

\* ------------------------------------------------------------ properties
BackendOps == {"InstanceExists", "CreateInstance", "DeleteInstance"}

\* The instance identity of an object: status.instanceID, else its name.
Identity(m) == IF m.status.instanceID # NoID THEN m.status.instanceID ELSE m.name

\* The positions of the calls of `op` in a trace.
Calls(tr, op) == {i \in 1 .. Len(tr) : tr[i].op = op}

\* A backend call of the reconcile returned an error.
BackendErr == \E i \in 1 .. Len(trace) : trace[i].op \in BackendOps /\ trace[i].res = "err"

\* This step removes the finalizer from the stored object.
Removal == stored.finalizer /\ ~stored'.finalizer

\* C1 (no leak): once reconcileDelete has removed the finalizer, the daemon
\* holds no instance under the object's identity (status.instanceID, else
\* the name), whatever reconciles, failures and crashes came before.
C1_NoLeak == removedByDelete => Identity(stored) \notin instances

\* The finalizer was removed in a reconcile that deleted the instance.
C1_Witness ==
    /\ removedByDelete
    /\ stored.deletionTimestamp /\ ~stored.finalizer
    /\ \E i \in Calls(trace, "DeleteInstance") : trace[i].res = "ok"

\* C2 as stated (finalizer ordering): the finalizer is removed only after an
\* InstanceExists check of the identity returned false, made after any
\* DeleteInstance of the reconcile.
C2_Original ==
    [][Removal =>
         \E j \in 1 .. Len(trace) :
            /\ trace[j] = Call("InstanceExists", Identity(stored), "false")
            /\ \A k \in Calls(trace, "DeleteInstance") : k < j]_vars

\* C2 as amended: the finalizer is removed only after, in the same reconcile,
\* an InstanceExists check of the identity returned false, or returned true
\* and the DeleteInstance that followed it returned success; no check is made
\* after the delete.
C2_FinalizerOrdering ==
    [][Removal =>
         LET id == Identity(stored) IN
         \/ /\ Call("InstanceExists", id, "false") \in {trace[j] : j \in 1 .. Len(trace)}
            /\ Calls(trace, "DeleteInstance") = {}
         \/ \E j, k \in 1 .. Len(trace) :
               /\ j < k
               /\ trace[j] = Call("InstanceExists", id, "true")
               /\ trace[k] = Call("DeleteInstance", id, "ok")
               /\ \A l \in Calls(trace, "DeleteInstance") : trace[l].res = "ok"]_vars

\* The finalizer is gone after a reconcile that checked, deleted and wrote.
C2_Witness ==
    /\ ~stored.finalizer
    /\ trace = <<Call("InstanceExists", Identity(stored), "true"),
                 Call("DeleteInstance", Identity(stored), "ok"),
                 Call("Update", NoID, "ok")>>

\* C3 (marker before create): when CreateInstance is issued the stored object
\* holds the finalizer; and the reconcile that persists the finalizer makes
\* that one store write, no backend call, and returns with a requeue.
C3_MarkerBeforeCreate ==
    [][/\ Len(creates') > Len(creates) => stored.present /\ stored.finalizer
       /\ (~stored.finalizer /\ stored'.finalizer) =>
             /\ trace' = <<Call("Update", NoID, "ok")>>
             /\ pc' = "idle" /\ lastResult' = "requeue"]_vars

\* CreateInstance was issued by the reconcile that followed the one which
\* added the finalizer.
C3_Witness ==
    /\ prev = [result |-> "requeue", trace |-> <<Call("Update", NoID, "ok")>>]
    /\ Len(creates) = 1
    /\ stored.finalizer

\* The instance a reconcile created without persisting status.instanceID:
\* it crashed, or its status update failed, after CreateInstance succeeded.
Orphaned(r) ==
    IF /\ r.result \in {"crash", "err"}
       /\ \E i \in Calls(r.trace, "CreateInstance") : r.trace[i].res = "ok"
       /\ \A i \in Calls(r.trace, "StatusUpdate") : r.trace[i].res = "err"
    THEN {r.trace[i].name : i \in Calls(r.trace, "CreateInstance")}
    ELSE {}

\* C4 (re-delivery safety): in the reconcile that replays one which created
\* the instance and did not persist status.instanceID, with no other actor in
\* between, no CreateInstance is issued, the instance is the one instance the
\* reconciler created that the daemon holds, and when the replay returns
\* success status.instanceID is that instance's name.
C4_Redelivery ==
    \A n \in Orphaned(prev) :
        (~disturbed /\ lastResult # "none") =>
            /\ Calls(trace, "CreateInstance") = {}
            /\ createdNames \cap instances = {n}
            /\ lastResult = "ok" => stored.status.instanceID = n

\* A replay after a crash between create and status update has returned.
C4_Witness ==
    /\ prev.result = "crash" /\ Orphaned(prev) # {}
    /\ ~disturbed /\ lastResult = "ok"
    /\ Calls(trace, "StatusUpdate") # {}

\* The reconcile made no mutating backend call and left the status as stored.
NoMutation ==
    /\ Calls(trace, "CreateInstance") = {}
    /\ Calls(trace, "DeleteInstance") = {}
    /\ stored.status = startObj.status

\* C5 as stated (idempotence): in a reconcile that follows another one with
\* no other actor in between, no CreateInstance or DeleteInstance is issued
\* and the stored status is unchanged.
C5_Original == (prev.result \in Results /\ ~disturbed) => NoMutation

\* C5 as amended: the same, when the first reconcile returned success without
\* asking for a requeue.
C5_Idempotence == (prev.result = "ok" /\ ~disturbed) => NoMutation

\* A second reconcile has returned after a first one that created the
\* instance and returned success.
C5_Witness ==
    /\ prev.result = "ok" /\ ~disturbed
    /\ Calls(prev.trace, "CreateInstance") # {}
    /\ pc = "idle" /\ lastResult = "ok"
    /\ Calls(trace, "InstanceExists") # {}

\* C6 (error propagation without commit): when a backend call of a reconcile
\* returned an error, it was the reconcile's last call, the reconcile has
\* returned the error, and the stored finalizer and status are those of the
\* reconcile's start.
C6_ErrorNoCommit ==
    BackendErr =>
        /\ pc = "idle" /\ lastResult = "err"
        /\ trace[Len(trace)].res = "err" /\ trace[Len(trace)].op \in BackendOps
        /\ stored.finalizer = startObj.finalizer
        /\ stored.status = startObj.status

\* A DeleteInstance failed having removed nothing, and the finalizer stays.
C6_Witness ==
    /\ BackendErr
    /\ trace[Len(trace)].op = "DeleteInstance"
    /\ instanceName \in instances
    /\ stored.finalizer /\ stored.deletionTimestamp

\* C7 (existence gating): a CreateInstance follows, in its reconcile, an
\* InstanceExists of the same name that returned false, a DeleteInstance one
\* that returned true; after a true check reconcileNormal issues no create
\* and its successful return leaves status.instanceID at that name; after a
\* false check reconcileDelete issues no delete and goes on to remove the
\* finalizer.
C7_ExistenceGating ==
    /\ \A i \in Calls(trace, "CreateInstance") :
          \E j \in 1 .. i - 1 : trace[j] = Call("InstanceExists", trace[i].name, "false")
    /\ \A i \in Calls(trace, "DeleteInstance") :
          \E j \in 1 .. i - 1 : trace[j] = Call("InstanceExists", trace[i].name, "true")
    /\ \A j \in Calls(trace, "InstanceExists") :
          /\ (trace[j].res = "true" /\ ~incusMachine.deletionTimestamp) =>
                /\ Calls(trace, "CreateInstance") = {}
                /\ lastResult = "ok" => stored.status.instanceID = trace[j].name
          /\ (trace[j].res = "false" /\ incusMachine.deletionTimestamp) =>
                /\ Calls(trace, "DeleteInstance") = {}
                /\ \/ pc = "removeFinalizer"
                   \/ lastResult = "crash"
                   \/ j < Len(trace) /\ trace[j + 1].op = "Update"

\* A reconcile deleted after a true check, following one that created after
\* a false check.
C7_Witness ==
    /\ Calls(trace, "DeleteInstance") # {}
    /\ createdNames # {}

\* C8 (defaulting): the values reconcileNormal passes to CreateInstance are
\* cpus 2 for spec.cpus < 1 and spec.cpus otherwise, memoryMiB 2048 for
\* spec.memoryMiB < 1 and spec.memoryMiB otherwise, the default image for an
\* empty spec.image and spec.image otherwise, and spec.rootDiskSizeGiB as it
\* is; the request sent to the daemon carries those cpus, memory and image,
\* never a value below 1 or an empty image.
C8_Defaulting ==
    \A i \in 1 .. Len(creates) :
        LET c == creates[i]
            s == stored.spec
            cpus == IF s.cpus < 1 THEN 2 ELSE s.cpus
            mem == IF s.memoryMiB < 1 THEN 2048 ELSE s.memoryMiB
            img == IF s.image = "" THEN "images:ubuntu/24.04" ELSE s.image
        IN /\ c.args = [image |-> img, cpus |-> cpus, memoryMiB |-> mem,
                        rootDiskSizeGiB |-> s.rootDiskSizeGiB]
           /\ \A k \in 1 .. Len(c.req) :
                 /\ c.req[k].limitsCpu = <<cpus, "">> /\ cpus >= 1
                 /\ c.req[k].limitsMemory = <<mem, "MiB">> /\ mem >= 1
                 /\ c.req[k].alias = img /\ img # ""

\* A create was sent for a spec with nothing set.
C8_Witness ==
    /\ Len(creates) = 1 /\ Len(creates[1].req) = 1
    /\ stored.spec.cpus < 1 /\ stored.spec.memoryMiB < 1 /\ stored.spec.image = ""
    /\ stored.spec.rootDiskSizeGiB = -1

\* C9 (no orphan): from CreateInstance's success until the status update
\* commits, with no other actor in between, an InstanceExists check of that
\* name returns true.
C9_NoOrphan ==
    (pc = "setStatus" /\ ~disturbed) =>
        \A out \in InstanceExists(server, instances, instanceName, FALSE) :
            out.exists /\ ~out.err

\* CreateInstance has succeeded and the status update is about to be made.
C9_Witness ==
    /\ pc = "setStatus" /\ ~disturbed
    /\ trace[Len(trace)] = Call("CreateInstance", instanceName, "ok")

\* C10 as stated (stuck objects are visible): after a reconcile in which a
\* backend call failed, the stored condition list holds a record.
C10_Claim ==
    (pc = "idle" /\ lastResult = "err" /\ BackendErr) =>
        Len(stored.status.conditions) > 0

\* A session is being established or is held by a caller that has not yet
\* stored it.
Establishing(w) == cw[w].pc \in {"dial", "assign"}

\* C11 as stated (shared-client concurrency safety): no caller establishes a
\* session while one exists or is being established by another caller, and
\* no call dereferences a nil c.server after its own Connect succeeded.
C11_Claim ==
    /\ \A w \in Workers :
          Establishing(w) =>
             /\ \A v \in Workers \ {w} : ~Establishing(v)
             /\ cw[w].pc = "assign" => ~server
    /\ ~nilUse

\* The successful Connect and Close calls of a log, in order.
Successful(l) == SelectSeq(l, LAMBDA e : e.res = "ok")

\* C12 (client session lifecycle): a Connect with a session held dials
\* nothing, returns success and leaves the session; a failed Connect leaves
\* the client without a session; a Close succeeds, with or without a session,
\* and leaves none; and the client holds a session exactly when its last
\* successful Connect or Close was a Connect.
C12_Lifecycle ==
    /\ \A i \in 1 .. Len(clog) :
          LET e == clog[i] IN
          /\ (e.op = "Connect" /\ e.before) => (~e.dialled /\ e.res = "ok" /\ e.after)
          /\ (e.op = "Connect" /\ e.res = "err") => ~e.after
          /\ e.op = "Close" => (e.res = "ok" /\ ~e.after)
    /\ LET ok == Successful(clog) IN
       server <=> (ok # <<>> /\ ok[Len(ok)].op = "Connect")

\* Connect twice with a session, then Close twice.
C12_Witness ==
    /\ Len(clog) = 4
    /\ clog[1] = Lifecycle("Connect", "ok", TRUE, FALSE, TRUE)
    /\ clog[2] = Lifecycle("Connect", "ok", FALSE, TRUE, TRUE)
    /\ clog[3] = Lifecycle("Close", "ok", FALSE, TRUE, FALSE)
    /\ clog[4] = Lifecycle("Close", "ok", FALSE, FALSE, FALSE)
    /\ ~server


\* C13 (the desired spec is read-only): no step changes the stored name,
\* image, cpus, memoryMiB or rootDiskSizeGiB; the defaults go to the backend
\* only.
C13_SpecReadOnly == [][stored'.spec = stored.spec /\ stored'.name = stored.name]_vars

\* An object with nothing set was given the finalizer and an instance created
\* with the defaults, its status was persisted, and its finalizer removed.
C13_Witness ==
    /\ stored.spec = [image |-> "", cpus |-> 0, memoryMiB |-> 0, rootDiskSizeGiB |-> 0]
    /\ createdNames # {} /\ stored.status.instanceID \in createdNames
    /\ removedByDelete

\* C14 as stated (instanceID invariant), for an object created with an empty
\* status: the stored status.instanceID is non-empty if and only if a
\* CreateInstance has been attempted for the object.
C14_Original ==
    stored.status.instanceID # OtherID =>
        ((stored.status.instanceID # NoID) <=> (attemptedNames # {}))

\* C14 as amended: status.instanceID is set or changed only by a reconcile in
\* which CreateInstance of that name returned success or InstanceExists of
\* that name returned true, and only to that name; a CreateInstance that
\* failed leaves it as it was.
C14_InstanceID ==
    [][stored'.status.instanceID # stored.status.instanceID =>
         /\ stored'.status.instanceID = instanceName
         /\ trace[Len(trace)] \in {Call("CreateInstance", instanceName, "ok"),
                                    Call("InstanceExists", instanceName, "true")}
         /\ \A i \in Calls(trace, "CreateInstance") : trace[i].res = "ok"]_vars

\* status.instanceID was set after an earlier CreateInstance had failed.
C14_Witness ==
    /\ stored.status.instanceID = Name
    /\ startObj.status.instanceID = NoID
    /\ prev.result = "err"
    /\ \E i \in Calls(prev.trace, "CreateInstance") : prev.trace[i].res = "err"

\* C15 (status-first naming): every backend call of a reconcile, in the
\* normal and in the delete path, names the instance status.instanceID when
\* that is set and the object's name otherwise; the object's name is not
\* sent when status.instanceID is set to another name.
C15_StatusFirstNaming ==
    /\ \A i \in 1 .. Len(trace) :
          trace[i].op \in BackendOps =>
             trace[i].name = (IF startObj.status.instanceID # ""
                              THEN startObj.status.instanceID ELSE startObj.name)
    /\ \A i \in 1 .. Len(creates) : \A k \in 1 .. Len(creates[i].req) :
          creates[i].req[k].name = creates[i].name

\* An instance named by status.instanceID, not by the object, was checked and
\* deleted.
C15_Witness ==
    /\ startObj.status.instanceID = OtherID /\ startObj.name # OtherID
    /\ \E i \in Calls(trace, "DeleteInstance") : trace[i].name = OtherID

\* C16 (deleted is terminal): a reconcile whose Get returned an object with
\* deletion requested and no finalizer makes no backend call and no store
\* write and returns success without requeue (an error only when the Get
\* itself failed); so no reconcile after the one that removed the finalizer
\* makes any call.
C16_DeletedTerminal ==
    /\ (lastResult # "none" /\ startObj.deletionTimestamp /\ ~startObj.finalizer) =>
          /\ trace = <<>> /\ pc = "idle"
          /\ lastResult = "ok" \/ (lastResult = "err" /\ faults > 0)
    /\ removedByDelete =>
          trace = <<>> \/ trace[Len(trace)] = Call("Update", NoID, "ok")

\* The reconcile after the one that deleted the instance and removed the
\* finalizer has returned.
C16_Witness ==
    /\ lastResult = "ok" /\ trace = <<>>
    /\ startObj.present /\ startObj.deletionTimestamp /\ ~startObj.finalizer
    /\ prev.result = "ok" /\ Calls(prev.trace, "DeleteInstance") # {}

\* C17 (no internal retry): one Reconcile issues at most one InstanceExists,
\* at most one of CreateInstance and DeleteInstance, and at most one store
\* write; a call that returned an error is its last call, and the reconcile
\* has returned the error.
C17_NoRetry ==
    /\ Cardinality(Calls(trace, "InstanceExists")) <= 1
    /\ Cardinality(Calls(trace, "CreateInstance") \cup Calls(trace, "DeleteInstance")) <= 1
    /\ Cardinality(Calls(trace, "Update") \cup Calls(trace, "StatusUpdate")) <= 1
    /\ \A i \in 1 .. Len(trace) :
          trace[i].res = "err" => i = Len(trace) /\ pc = "idle" /\ lastResult = "err"

\* A reconcile returned the error of its CreateInstance.
C17_Witness ==
    /\ Len(trace) = 2 /\ trace[2].op = "CreateInstance" /\ trace[2].res = "err"
    /\ instanceName \notin instances

\* C18 (mode separation): a reconcile whose Get returned an object with
\* deletion requested issues no CreateInstance, writes no status and does not
\* add the finalizer; one whose Get returned an object without deletion
\* requested issues no DeleteInstance and does not remove the finalizer.
C18_ModeSeparation ==
    IF startObj.deletionTimestamp
    THEN /\ Calls(trace, "CreateInstance") = {}
         /\ Calls(trace, "StatusUpdate") = {}
         /\ stored.status = startObj.status
         /\ stored.finalizer => startObj.finalizer
    ELSE /\ Calls(trace, "DeleteInstance") = {}
         /\ startObj.finalizer => stored.finalizer

\* A delete-mode reconcile deleted an instance that a normal-mode one created.
C18_Witness ==
    /\ startObj.deletionTimestamp
    /\ \E i \in Calls(trace, "DeleteInstance") : trace[i].res = "ok"
    /\ createdNames # {}

\* C19 (instanceID is write-once): once the stored status.instanceID is
\* non-empty no step changes it, whatever the backend holds.
C19_WriteOnce ==
    [][stored.status.instanceID # NoID =>
         stored'.status.instanceID = stored.status.instanceID]_vars

\* The instance named by status.instanceID disappeared and was created again.
C19_Witness ==
    /\ startObj.status.instanceID # NoID
    /\ externals > 0
    /\ \E i \in Calls(trace, "CreateInstance") : trace[i].res = "ok"
    /\ lastResult = "ok"

\* The object is in its steady state: finalizer present, the instance its
\* status names held by the daemon.
Converged ==
    /\ stored.present /\ ~stored.deletionTimestamp /\ stored.finalizer
    /\ stored.status.instanceID # NoID
    /\ stored.status.instanceID \in instances

\* The object is torn down: finalizer gone and its instance absent.
TornDown == ~stored.finalizer /\ Identity(stored) \notin instances

\* C20 (convergence under re-delivery): with reconciles of the object
\* serialized, every pending request delivered and failures ending, (a) an
\* object with deletion requested and the finalizer present eventually has
\* its instance absent and the finalizer removed, (b) an object without
\* deletion requested eventually has the finalizer, its instance and
\* status.instanceID naming it, and from then on no step changes the object
\* or the instances unless deletion is requested.
C20_Convergence ==
    /\ (stored.deletionTimestamp /\ stored.finalizer) ~> TornDown
    /\ (~stored.deletionTimestamp) ~> (Converged \/ stored.deletionTimestamp)
    /\ [][Converged /\ ~stored'.deletionTimestamp =>
             stored' = stored /\ instances' = instances]_vars

\* Failures spent on the way, the instance was created, then deleted by the
\* reconciler and the finalizer removed.
C20_Witness ==
    /\ faults = MaxFaults
    /\ createdNames # {}
    /\ removedByDelete
    /\ TornDown

====
